---- MODULE Spec2Model ----
(***************************************************************************)
(* Model of valyala/fasttemplate (src/unsafe.go, src/errors.go).           *)
(*                                                                         *)
(* Byte strings are sequences of one-character strings.  Slices are        *)
(* 0-based and half-open as in Go: Slice(s, lo, hi) is s[lo:hi].           *)
(*                                                                         *)
(* Spec      : one caller; NewTemplate, Template.Execute and the one-shot  *)
(*             Execute on the same template, delimiters, map and sink.     *)
(* SpecParse : NewTemplate on every template up to MaxLen and every pair   *)
(*             of delimiters, the empty ones included.                     *)
(* SpecPool  : goroutines calling ExecuteString on one parsed Template,    *)
(*             interleaved at every step between Get and Put.              *)
(* SpecReset : one caller calling Reset again and again on one Template,   *)
(*             and Template.Execute after a Reset that returned nil.       *)
(* SpecScan  : the scanning loops of the one-shot ExecuteFunc and of Reset *)
(*             taken one iteration at a time, empty delimiters included.   *)
(***************************************************************************)
EXTENDS Integers, Sequences, FiniteSets, TLC

(***************************************************************************)
(* Bounds of the model.                                                    *)
(***************************************************************************)
\* longest template text enumerated for the tokenizer (SpecParse)
MaxLen == 5
\* longest template text enumerated for rendering (Spec)
MaxRenderLen == 3
\* longest delimiter enumerated
MaxDelimLen == 2
\* the sink fails at its failAt-th Write call, 1..MaxFailAt (0: never)
MaxFailAt == 2
\* spare capacity (cap - len) of the byte slice made by unsafeString2Bytes
MaxCapExtra == 1
\* goroutines that render one Template, and calls they make in all
NumGoroutines == 2
MaxCalls == 3
\* longest template text given to a Reset of an existing Template (SpecReset)
MaxResetLen == 3
\* longest template text scanned one iteration at a time (SpecScan), and the
\* number of loop iterations after which the model stops following a scan
MaxScanLen == 3
MaxIters == 6

Alphabet == {"{", "}", "a", " "}
DelimAlphabet == {"{", "}"}

(***************************************************************************)
(* Error values (src/errors.go and the fmt.Errorf of Reset).               *)
(***************************************************************************)
ErrNil == "nil"
ErrEmptyStartTag == "ErrEmptyStartTag"
ErrEmptyEndTag == "ErrEmptyEndTag"
ErrInvalidTag == "ErrInvalidTag"
ErrCannotFindEndTag == "cannot find end tag"
\* the error a failing sink returns from Write
ErrWrite == "ErrWrite"

(***************************************************************************)
(* Byte-slice primitives of package bytes.                                 *)
(***************************************************************************)
Min(S) == CHOOSE x \in S : \A y \in S : x <= y
Max(S) == CHOOSE x \in S : \A y \in S : x >= y

Slice(s, lo, hi) == SubSeq(s, lo + 1, hi)

\* s[lo:]
SliceFrom(s, lo) == SubSeq(s, lo + 1, Len(s))

Occurrences(s, sep) ==
    {i \in 0..(Len(s) - Len(sep)) : Slice(s, i, i + Len(sep)) = sep}

\* bytes.Index
Index(s, sep) ==
    LET occ == Occurrences(s, sep)
    IN  IF occ = {} THEN -1 ELSE Min(occ)

\* bytes.LastIndex
LastIndex(s, sep) ==
    LET occ == Occurrences(s, sep)
    IN  IF occ = {} THEN -1 ELSE Max(occ)

\* bytes.Count: non-overlapping occurrences; len(s)+1 for an empty sep
RECURSIVE Count(_, _)
Count(s, sep) ==
    IF sep = <<>> THEN Len(s) + 1
    ELSE LET n == Index(s, sep)
         IN  IF n < 0 THEN 0 ELSE 1 + Count(SliceFrom(s, n + Len(sep)), sep)

IsSpace(c) == c \in {" ", "\t", "\n", "\r"}

\* bytes.TrimSpace
TrimSpace(s) ==
    LET keep == {i \in 1..Len(s) : ~IsSpace(s[i])}
    IN  IF keep = {} THEN <<>> ELSE SubSeq(s, Min(keep), Max(keep))

(***************************************************************************)
(* Template.Reset                                                          *)
(***************************************************************************)
\* secondIndex(s, sep).  capExtra is cap(s) - len(s): unsafeString2Bytes
\* (lines 14-16) reads the slice header from a string header, which has no
\* capacity word, so the capacity is whatever follows in memory.  s[:n] with
\* n > len(s) therefore either panics or yields n bytes; capExtra ranges over
\* 0..MaxCapExtra (a capacity below the length is not modelled).
secondIndex(s, sep, capExtra) ==
    LET n == Index(s, sep)
        s2 == SliceFrom(s, n + 1)
        lenPrev == n + 1
        nSecond == Index(s2, sep)
    IN  IF n < 0 THEN [panic |-> FALSE, n |-> -1]
        ELSE IF n > Len(s2) + capExtra THEN [panic |-> TRUE, n |-> -1]
        ELSE IF nSecond < 0 THEN [panic |-> FALSE, n |-> -1]
        ELSE [panic |-> FALSE, n |-> nSecond + lenPrev]

\* the loop of lines 370-378: start markers that come before the nearest end
\* marker are moved, with the text before them, into missingTag
RECURSIVE missingTagLoop(_, _, _, _)
missingTagLoop(templateBytes, missingTag, startTagBytes, endTagBytes) ==
    LET startTagIdx == Index(templateBytes, startTagBytes)
        endTagIdx == Index(templateBytes, endTagBytes)
        cut == startTagIdx + Len(startTagBytes)
    IN  IF (startTagIdx < endTagIdx) /\ (startTagIdx > -1)
        THEN missingTagLoop(SliceFrom(templateBytes, cut),
                            missingTag \o Slice(templateBytes, 0, cut),
                            startTagBytes, endTagBytes)
        ELSE [templateBytes |-> templateBytes, missingTag |-> missingTag]

\* line 396: the end marker of the tag within templateBytes[:nNext]
tagEndIndex(templateBytes, nNext, endTagBytes) ==
    LastIndex(Slice(templateBytes, 0, nNext), endTagBytes)

\* lines 401-402: the tag name appended to t.tags
tagName(missingTag, templateBytes, n) ==
    TrimSpace(missingTag \o Slice(templateBytes, 0, n))

lastTextsDropped(texts, templateBytes) == texts

\* line 363: the text after the last tag is the last fragment
lastTexts(texts, templateBytes) == Append(texts, templateBytes)

\* The loop of lines 360-404.  The result is what Reset returns together
\* with the texts and tags appended so far.
RECURSIVE resetLoop(_, _, _, _, _, _)
resetLoop(templateBytes, texts, tags, startTagBytes, endTagBytes, capExtra) ==
    LET n == Index(templateBytes, startTagBytes)
        texts1 == Append(texts, Slice(templateBytes, 0, n))
        sk == missingTagLoop(SliceFrom(templateBytes, n + Len(startTagBytes)),
                             <<>>, startTagBytes, endTagBytes)
        tb == sk.templateBytes
        idx == Index(tb, startTagBytes)
        nNext0 == IF idx < 0 THEN Len(tb) ELSE idx
        same == (startTagBytes = endTagBytes)
        \* line 386: slice bounds out of range when low > len
        oob == same /\ nNext0 + Len(startTagBytes) > Len(tb)
        si == secondIndex(SliceFrom(tb, nNext0 + Len(startTagBytes)),
                          startTagBytes, capExtra)
        nNext == IF ~same THEN nNext0
                 ELSE IF si.n < 0 THEN Len(tb) ELSE si.n
        nEnd == tagEndIndex(tb, nNext, endTagBytes)
    IN  IF n < 0
        THEN [panic |-> FALSE, err |-> ErrNil,
              texts |-> lastTexts(texts, templateBytes), tags |-> tags]
        ELSE IF oob \/ (same /\ si.panic)
        THEN [panic |-> TRUE, err |-> ErrNil, texts |-> texts1, tags |-> tags]
        ELSE IF nEnd < 0
        THEN [panic |-> FALSE, err |-> ErrCannotFindEndTag,
              texts |-> texts1, tags |-> tags]
        ELSE resetLoop(SliceFrom(tb, nEnd + Len(endTagBytes)), texts1,
                       Append(tags, tagName(sk.missingTag, tb, nEnd)),
                       startTagBytes, endTagBytes, capExtra)

\* The zero value of Template (var t Template).
\* textsCap and tagsCap are cap(t.texts) and cap(t.tags); texts and tags are
\* the slices up to their length.
ZeroTemplate ==
    [template |-> <<>>, startTag |-> <<>>, endTag |-> <<>>,
     texts |-> <<>>, tags |-> <<>>, textsCap |-> 0, tagsCap |-> 0]

truncateKept(s) == s

\* lines 334-335: s[:0]
truncate(s) == SubSeq(s, 1, 0)

\* lines 353-358: a new backing array when the old one is too small
makeIfSmall(s, cap, need) == IF need > cap THEN <<>> ELSE s

\* the capacity after the appends of the loop
capAfter(s, cap, need) == Max({cap, need, Len(s)})

\* Template.Reset: the Template it leaves and what it returns.  Lines 331-335
\* replace the strings of the old Template and cut texts and tags to length
\* 0, keeping their backing arrays; the loop appends to them.
Reset(old, template, startTag, endTag, capExtra) ==
    LET cleared == [template |-> template, startTag |-> startTag,
                    endTag |-> endTag, texts |-> truncate(old.texts),
                    tags |-> truncate(old.tags),
                    textsCap |-> old.textsCap, tagsCap |-> old.tagsCap]
        tagsCount == Count(template, startTag)
        r == resetLoop(template,
                       makeIfSmall(cleared.texts, old.textsCap, tagsCount + 1),
                       makeIfSmall(cleared.tags, old.tagsCap, tagsCount),
                       startTag, endTag, capExtra)
    IN  IF Len(startTag) = 0
        THEN [t |-> cleared, panic |-> FALSE, err |-> ErrEmptyStartTag]
        ELSE IF Len(endTag) = 0
        THEN [t |-> cleared, panic |-> FALSE, err |-> ErrEmptyEndTag]
        ELSE IF tagsCount = 0
        THEN [t |-> cleared, panic |-> FALSE, err |-> ErrNil]
        ELSE [t |-> [cleared EXCEPT
                        !.texts = r.texts, !.tags = r.tags,
                        !.textsCap = capAfter(r.texts, @, tagsCount + 1),
                        !.tagsCap = capAfter(r.tags, @, tagsCount)],
              panic |-> r.panic, err |-> r.err]

(***************************************************************************)
(* The sink (io.Writer) and the substitution map.                          *)
(***************************************************************************)
\* A sink with the bytes it holds, the number of Write calls made on it and
\* the trace of what a render did: writes (of a fragment, a start marker, the
\* rest of the template or a tag value) and calls of the tag callback f.
EmptyWriter == [buf |-> <<>>, writes |-> 0, events |-> <<>>]

\* w.Write(p): the failAt-th Write call fails, writing nothing.
Write(w, p, failAt, what) ==
    LET ok == (w.writes + 1 # failAt)
    IN  [w |-> [buf |-> IF ok THEN w.buf \o p ELSE w.buf,
                writes |-> w.writes + 1,
                events |-> Append(w.events,
                    [op |-> "write", what |-> what, ok |-> ok, tag |-> <<>>])],
         n |-> IF ok THEN Len(p) ELSE 0,
         err |-> IF ok THEN ErrNil ELSE ErrWrite]

\* Values of the map m: kind is "nil", "bytes", "string", "TagFunc" or
\* "other" (any other Go type); a TagFunc writes its data to w with one
\* Write call and returns what Write returns.
NilValue == [kind |-> "nil", data |-> <<>>]
Value(kind, data) == [kind |-> kind, data |-> data]

\* m[tag]
Lookup(m, tag) == IF tag \in DOMAIN m THEN m[tag] ELSE NilValue

stdTagFuncNoString(w, tag, m, failAt) ==
    LET v == Lookup(m, tag)
    IN  IF v.kind = "nil" THEN [w |-> w, n |-> 0, err |-> ErrNil]
        ELSE IF v.kind \in {"bytes", "TagFunc"}
        THEN Write(w, v.data, failAt, "value")
        ELSE [w |-> w, n |-> 0, err |-> ErrInvalidTag]

stdTagFunc(w, tag, m, failAt) ==
    LET v == Lookup(m, tag)
    IN  IF v.kind = "nil" THEN [w |-> w, n |-> 0, err |-> ErrNil]
        ELSE IF v.kind \in {"bytes", "string", "TagFunc"}
        THEN Write(w, v.data, failAt, "value")
        ELSE [w |-> w, n |-> 0, err |-> ErrInvalidTag]

\* f(w, tag) for the f that Execute and Template.Execute pass on:
\* func(w, tag) { return stdTagFunc(w, tag, m) }
callF(w, tag, m, failAt) ==
    stdTagFunc([w EXCEPT !.events = Append(@,
                   [op |-> "call", what |-> "", ok |-> TRUE, tag |-> tag])],
               tag, m, failAt)

(***************************************************************************)
(* Template.ExecuteFunc (lines 414-439)                                    *)
(***************************************************************************)
RECURSIVE templateExecuteLoop(_, _, _, _, _, _)
templateExecuteLoop(t, i, w, nn, m, failAt) ==
    LET n == Len(t.texts) - 1
        r1 == Write(w, t.texts[i + 1], failAt, "fragment")
        r2 == callF(r1.w, t.tags[i + 1], m, failAt)
        rn == Write(w, t.texts[n + 1], failAt, "fragment")
    IN  IF i < n
        THEN IF r1.err # ErrNil
             THEN [w |-> r1.w, nn |-> nn + r1.n, err |-> r1.err]
             ELSE IF r2.err # ErrNil
             THEN [w |-> r2.w, nn |-> nn + r1.n + r2.n, err |-> r2.err]
             ELSE templateExecuteLoop(t, i + 1, r2.w, nn + r1.n + r2.n,
                                      m, failAt)
        ELSE [w |-> rn.w, nn |-> nn + rn.n, err |-> rn.err]

TemplateExecuteFunc(t, w, m, failAt) ==
    LET r == Write(w, t.template, failAt, "rest")
    IN  IF Len(t.texts) - 1 = -1
        THEN [w |-> r.w, nn |-> r.n, err |-> r.err]
        ELSE templateExecuteLoop(t, 0, w, 0, m, failAt)

(***************************************************************************)
(* The one-shot ExecuteFunc (lines 177-213)                                *)
(***************************************************************************)
\* lines 209-212
executeRest(s, w, nn, failAt) ==
    LET r == Write(w, s, failAt, "rest")
    IN  [w |-> r.w, nn |-> nn + r.n, err |-> r.err]

unterminatedDropped(s, a, w, nn, failAt) == executeRest(s, w, nn, failAt)

\* lines 198-203 and 209-212: no end tag after the start tag
unterminated(s, a, w, nn, failAt) ==
    LET ra == Write(w, a, failAt, "startTag")
    IN  executeRest(s, ra.w, nn + ra.n, failAt)

RECURSIVE executeLoop(_, _, _, _, _, _, _)
executeLoop(s, a, b, w, nn, m, failAt) ==
    LET n == Index(s, a)
        r1 == Write(w, Slice(s, 0, n), failAt, "fragment")
        s1 == SliceFrom(s, n + Len(a))
        n2 == Index(s1, b)
        rf == callF(r1.w, Slice(s1, 0, n2), m, failAt)
    IN  IF n < 0 THEN executeRest(s, w, nn, failAt)
        ELSE IF r1.err # ErrNil
        THEN [w |-> r1.w, nn |-> nn + r1.n, err |-> r1.err]
        ELSE IF n2 < 0 THEN unterminated(s1, a, r1.w, nn + r1.n, failAt)
        ELSE executeLoop(SliceFrom(s1, n2 + Len(b)), a, b, rf.w,
                         nn + r1.n + rf.n, m, failAt)

ExecuteFunc(template, startTag, endTag, w, m, failAt) ==
    executeLoop(template, startTag, endTag, w, 0, m, failAt)

(***************************************************************************)
(* Inputs                                                                  *)
(***************************************************************************)
SeqsUpTo(S, n) == UNION {[1..k -> S] : k \in 0..n}

\* delimiters: a delimiter character repeated up to MaxDelimLen times ("{",
\* "{{", "}", "}}", ...), and the empty delimiter
Delims ==
    {[i \in 1..k |-> c] : c \in DelimAlphabet, k \in 0..MaxDelimLen}
NonEmptyDelims == Delims \ {<<>>}

ExHttpTemplate ==
    <<"h", "t", "t", "p", ":", "/", "/", "{", "{", "h", "o", "s", "t",
    "}", "}", "/", "?", "q", "=", "{", "{", "q", "u", "e", "r", "y", "}",
    "}">>
ExHttpOutput ==
    <<"h", "t", "t", "p", ":", "/", "/", "e", "x", "a", "m", "p", "l",
    "e", ".", "c", "o", "m", "/", "?", "q", "=", "x", "=", "1">>
ExHttpOutputNoQuery ==
    <<"h", "t", "t", "p", ":", "/", "/", "e", "x", "a", "m", "p", "l",
    "e", ".", "c", "o", "m", "/", "?", "q", "=">>
ExNestedTemplate ==
    <<"{", "{", "a", "{", "{", "b", "}", "}">>
ExPipesTemplate ==
    <<"a", "|", "b", "|", "c", "|", "d", "|", "e">>
ExUnterminatedTemplate ==
    <<"a", "{", "{", "b">>
KeyHost ==
    <<"h", "o", "s", "t">>
KeyQuery ==
    <<"q", "u", "e", "r", "y">>
ValExampleCom ==
    <<"e", "x", "a", "m", "p", "l", "e", ".", "c", "o", "m">>
ValX1 ==
    <<"x", "=", "1">>

Curly2 == <<"{", "{">>
Curly2End == <<"}", "}">>
Pipe == <<"|">>

\* the calls the documentation and the tests of the package make
ExampleParses ==
    {<<ExHttpTemplate, Curly2, Curly2End>>,
     <<ExNestedTemplate, Curly2, Curly2End>>,
     <<ExUnterminatedTemplate, Curly2, Curly2End>>,
     <<ExPipesTemplate, Pipe, Pipe>>}

\* template, startTag, endTag given to NewTemplate in SpecParse
ParseInputs ==
    (SeqsUpTo(Alphabet, MaxLen) \X Delims \X Delims) \cup ExampleParses

\* substitution maps
EmptyMap == [k \in {} |-> NilValue]
MapValid ==
    (<<"a">> :> Value("string", <<"x">>))
        @@ (<<>> :> Value("bytes", <<"y", "y">>))
        @@ (<<"}">> :> Value("TagFunc", <<"z">>))
        @@ (<<"{">> :> NilValue)
MapOther ==
    (<<"a">> :> Value("other", <<>>)) @@ (<<>> :> Value("string", <<"x">>))
MapHttp ==
    (KeyHost :> Value("string", ValExampleCom))
        @@ (KeyQuery :> Value("string", ValX1))
MapHttpNoQuery == (KeyHost :> Value("string", ValExampleCom))

Maps == {MapValid, MapOther}

\* template, startTag, endTag, m, failAt of the renders in Spec
RenderInputs ==
    (SeqsUpTo(Alphabet, MaxRenderLen) \X NonEmptyDelims \X NonEmptyDelims
        \X Maps \X (0..MaxFailAt))
    \cup ({ExHttpTemplate, ExUnterminatedTemplate} \X {Curly2} \X {Curly2End}
          \X {MapHttp, MapHttpNoQuery} \X {0})

(***************************************************************************)
(* State                                                                   *)
(***************************************************************************)
VARIABLES
    template, startTag, endTag,  \* the arguments the caller passes
    m, failAt,                   \* the map and the sink the caller passes
    t,                           \* the Template (template, texts, tags)
    newRes,                      \* what NewTemplate returned
    pre,                         \* what Template.Execute returned
    one,                         \* what the one-shot Execute returned
    pool,                        \* t.byteBufferPool: the buffers in it
    bufs,                        \* the contents of every ByteBuffer made
    gor,                         \* the goroutines calling t.ExecuteString
    resets,                      \* how the Reset calls made on t so far ended
    scan                         \* a call of ExecuteFunc or Reset inside its loop

inputVars == <<template, startTag, endTag, m, failAt>>
poolVars == <<pool, bufs, gor>>
vars ==
    <<template, startTag, endTag, m, failAt, t, newRes, pre, one,
      pool, bufs, gor, resets, scan>>

NotParsed == [called |-> FALSE, panic |-> FALSE, err |-> ErrNil]
NotRendered ==
    [called |-> FALSE, out |-> <<>>, nn |-> 0, err |-> ErrNil,
     events |-> <<>>]

Rendered(r) ==
    [called |-> TRUE, out |-> r.w.buf, nn |-> r.nn, err |-> r.err,
     events |-> r.w.events]

\* No call is inside a scanning loop.  In a scan, s is the remaining template
\* text (s of ExecuteFunc, templateBytes of Reset), prev its length when the
\* last iteration began, iters the iterations begun and calls the calls of f.
ScanIdle ==
    [op |-> "none", pc |-> "idle", s |-> <<>>, prev |-> 0, iters |-> 0,
     calls |-> 0, w |-> EmptyWriter, nn |-> 0, err |-> ErrNil,
     panic |-> FALSE, texts |-> <<>>, tags |-> <<>>, missingTag |-> <<>>]

Goroutines == 1..NumGoroutines

\* a goroutine that is not inside a call and has made none
Idle ==
    [pc |-> "idle", m |-> EmptyMap, bb |-> 0, s |-> <<>>, err |-> ErrNil,
     ncalls |-> 0]

InitPool ==
    /\ pool = {}
    /\ bufs = <<>>
    /\ gor = [g \in Goroutines |-> Idle]

InitRest ==
    /\ t = ZeroTemplate
    /\ newRes = NotParsed
    /\ pre = NotRendered
    /\ one = NotRendered
    /\ resets = {}
    /\ scan = ScanIdle
    /\ InitPool

Init ==
    /\ \E in \in RenderInputs :
        /\ template = in[1]
        /\ startTag = in[2]
        /\ endTag = in[3]
        /\ m = in[4]
        /\ failAt = in[5]
    /\ InitRest

InitParse ==
    /\ \E in \in ParseInputs :
        /\ template = in[1]
        /\ startTag = in[2]
        /\ endTag = in[3]
    /\ m = EmptyMap
    /\ failAt = 0
    /\ InitRest

(***************************************************************************)
(* Operations                                                              *)
(***************************************************************************)
\* NewTemplate(template, startTag, endTag), lines 305-312: Reset on a zero
\* Template; the Template is returned only when Reset returns nil.
NewTemplate ==
    /\ ~newRes.called
    /\ \E capExtra \in 0..MaxCapExtra :
        LET r == Reset(ZeroTemplate, template, startTag, endTag, capExtra)
        IN  /\ newRes' = [called |-> TRUE, panic |-> r.panic, err |-> r.err]
            /\ t' = IF ~r.panic /\ r.err = ErrNil THEN r.t ELSE ZeroTemplate
    /\ UNCHANGED <<inputVars, resets, scan, pre, one, poolVars>>

Parsed == newRes.called /\ ~newRes.panic /\ newRes.err = ErrNil

\* t.Execute(w, m), line 450-452, on the Template NewTemplate returned
TemplateExecute ==
    /\ Parsed
    /\ ~pre.called
    /\ pre' = Rendered(TemplateExecuteFunc(t, EmptyWriter, m, failAt))
    /\ UNCHANGED <<inputVars, resets, scan, t, newRes, one, poolVars>>

\* Execute(template, startTag, endTag, w, m), lines 227-229
Execute ==
    /\ ~one.called
    /\ one' = Rendered(ExecuteFunc(template, startTag, endTag, EmptyWriter,
                                   m, failAt))
    /\ UNCHANGED <<inputVars, resets, scan, t, newRes, pre, poolVars>>

Next == NewTemplate \/ TemplateExecute \/ Execute

Spec == Init /\ [][Next]_vars

NextParse == NewTemplate

SpecParse == InitParse /\ [][NextParse]_vars

(***************************************************************************)
(* Template.ExecuteString called by several goroutines (lines 461-485)     *)
(***************************************************************************)
\* templates the goroutines share, parsed before they start
PoolInputs ==
    {<<"a", "{", "}", "{", "a", "}">>, <<"a">>} \X {<<"{">>} \X {<<"}">>}

\* the maps the goroutines pass
PoolMaps == {MapValid, MapOther}

InitShared ==
    /\ \E in \in PoolInputs :
        /\ template = in[1]
        /\ startTag = in[2]
        /\ endTag = in[3]
        /\ t = Reset(ZeroTemplate, in[1], in[2], in[3], 0).t
    /\ newRes = [called |-> TRUE, panic |-> FALSE, err |-> ErrNil]
    /\ m = EmptyMap
    /\ failAt = 0
    /\ pre = NotRendered
    /\ one = NotRendered
    /\ resets = {}
    /\ scan = ScanIdle
    /\ InitPool

\* calls of ExecuteString made so far
RECURSIVE CallsMade(_)
CallsMade(n) == IF n = 0 THEN 0 ELSE gor[n].ncalls + CallsMade(n - 1)

\* the goroutine is between Get and Put
Holding(g) == gor[g].pc \in {"exec", "copy", "reset", "put"}

\* Pool.Get takes the buffer out of the pool
poolGet(p, id) == p \ {id}

bufferKept(b) == b

\* ByteBuffer.Reset, line 468
bufferReset(b) == <<>>

\* line 463, bb := t.byteBufferPool.Get(): a buffer of the pool or a new one
Get(g) ==
    /\ gor[g].pc \in {"idle", "returned"}
    /\ CallsMade(NumGoroutines) < MaxCalls
    /\ \E mm \in PoolMaps :
        \/ \E id \in pool :
            /\ pool' = poolGet(pool, id)
            /\ bufs' = bufs
            /\ gor' = [gor EXCEPT ![g] =
                    [pc |-> "exec", m |-> mm, bb |-> id, s |-> <<>>,
                     err |-> ErrNil, ncalls |-> @.ncalls + 1]]
        \/ /\ pool' = pool
           /\ bufs' = Append(bufs, <<>>)
           /\ gor' = [gor EXCEPT ![g] =
                    [pc |-> "exec", m |-> mm, bb |-> Len(bufs) + 1,
                     s |-> <<>>, err |-> ErrNil, ncalls |-> @.ncalls + 1]]
    /\ UNCHANGED <<inputVars, resets, scan, t, newRes, pre, one>>

\* lines 464-466: t.ExecuteFunc(bb, f); an error returns without Put
Exec(g) ==
    /\ gor[g].pc = "exec"
    /\ LET r == TemplateExecuteFunc(t,
                    [EmptyWriter EXCEPT !.buf = bufs[gor[g].bb]],
                    gor[g].m, 0)
       IN  /\ bufs' = [bufs EXCEPT ![gor[g].bb] = r.w.buf]
           /\ gor' = [gor EXCEPT ![g] =
                    IF r.err # ErrNil
                    THEN [@ EXCEPT !.pc = "returned", !.bb = 0,
                                   !.s = <<>>, !.err = r.err]
                    ELSE [@ EXCEPT !.pc = "copy"]]
    /\ UNCHANGED <<inputVars, resets, scan, t, newRes, pre, one, pool>>

\* line 467: s = string(bb.Bytes())
CopyOut(g) ==
    /\ gor[g].pc = "copy"
    /\ gor' = [gor EXCEPT ![g].pc = "reset", ![g].s = bufs[gor[g].bb]]
    /\ UNCHANGED <<inputVars, resets, scan, t, newRes, pre, one, pool, bufs>>

\* line 468: bb.Reset()
ResetBuffer(g) ==
    /\ gor[g].pc = "reset"
    /\ bufs' = [bufs EXCEPT ![gor[g].bb] = bufferReset(@)]
    /\ gor' = [gor EXCEPT ![g].pc = "put"]
    /\ UNCHANGED <<inputVars, resets, scan, t, newRes, pre, one, pool>>

\* lines 469-470: t.byteBufferPool.Put(bb); return s, nil
Put(g) ==
    /\ gor[g].pc = "put"
    /\ pool' = pool \cup {gor[g].bb}
    /\ gor' = [gor EXCEPT ![g].pc = "returned", ![g].bb = 0]
    /\ UNCHANGED <<inputVars, resets, scan, t, newRes, pre, one, bufs>>

NextPool ==
    \E g \in Goroutines :
        Get(g) \/ Exec(g) \/ CopyOut(g) \/ ResetBuffer(g) \/ Put(g)

SpecPool == InitShared /\ [][NextPool]_vars

(***************************************************************************)
(* Template.Reset called again on the same Template (lines 328-406)        *)
(***************************************************************************)
\* templates and delimiters given to the Reset calls
ResetTemplates ==
    SeqsUpTo(DelimAlphabet, MaxResetLen)
        \cup {<<"{", "}", "{", "}">>, <<"a", "{", "a", "}">>, <<"a">>,
              <<"{", " ", "}", "a">>}

ResetDelims ==
    {<< <<"{">>, <<"}">> >>, << <<"{">>, <<"{">> >>, << <<>>, <<"}">> >>}

ResetInputs == ResetTemplates \X ResetDelims

InitReset ==
    /\ template = <<>>
    /\ startTag = <<>>
    /\ endTag = <<>>
    /\ m = MapValid
    /\ failAt = 0
    /\ InitRest

\* how a call of Reset ended
Outcome(r) ==
    IF r.panic THEN "panic" ELSE IF r.err # ErrNil THEN "err" ELSE "ok"

\* t.Reset(template, startTag, endTag) on the Template as the calls before
\* left it; a panic leaves what the loop had appended when it was raised
TemplateReset ==
    /\ \E in \in ResetInputs, capExtra \in 0..MaxCapExtra :
        \E r \in {Reset(t, in[1], in[2][1], in[2][2], capExtra)} :
            /\ template' = in[1]
            /\ startTag' = in[2][1]
            /\ endTag' = in[2][2]
            /\ t' = r.t
            /\ newRes' = [called |-> TRUE, panic |-> r.panic, err |-> r.err]
            /\ resets' = resets \cup {Outcome(r)}
    /\ pre' = NotRendered
    /\ UNCHANGED <<m, failAt, one, poolVars, scan>>

NextReset == TemplateReset \/ TemplateExecute

SpecReset == InitReset /\ [][NextReset]_vars

(***************************************************************************)
(* The loops of ExecuteFunc (lines 185-208) and of Reset (lines 360-404),  *)
(* one iteration at a time                                                 *)
(***************************************************************************)
\* template, startTag, endTag of the scans
ScanInputs == SeqsUpTo(Alphabet, MaxScanLen) \X Delims \X Delims

InitScan ==
    /\ \E in \in ScanInputs :
        /\ template = in[1]
        /\ startTag = in[2]
        /\ endTag = in[3]
    /\ m = MapValid
    /\ failAt = 0
    /\ InitRest

scanUnchanged == <<inputVars, t, newRes, pre, one, poolVars, resets>>

\* lines 178-184
ExecuteFuncStart ==
    /\ scan.pc = "idle"
    /\ scan' = [ScanIdle EXCEPT !.op = "ExecuteFunc", !.pc = "loop",
                                !.s = template, !.prev = Len(template)]
    /\ UNCHANGED scanUnchanged

\* one iteration of the loop of lines 185-208
ExecuteFuncIter ==
    /\ scan.op = "ExecuteFunc"
    /\ scan.pc = "loop"
    /\ scan.iters < MaxIters
    /\ LET s == scan.s
           n == Index(s, startTag)
           r1 == Write(scan.w, Slice(s, 0, n), failAt, "fragment")
           s1 == SliceFrom(s, n + Len(startTag))
           n2 == Index(s1, endTag)
           ra == Write(r1.w, startTag, failAt, "startTag")
           rf == callF(r1.w, Slice(s1, 0, n2), m, failAt)
           started == [scan EXCEPT !.iters = @ + 1, !.prev = Len(s)]
       IN  scan' =
             IF n < 0 THEN [started EXCEPT !.pc = "rest"]
             ELSE IF r1.err # ErrNil
             THEN [started EXCEPT !.pc = "done", !.w = r1.w,
                                  !.nn = @ + r1.n, !.err = r1.err]
             ELSE IF n2 < 0
             THEN [started EXCEPT !.pc = "rest", !.s = s1, !.w = ra.w,
                                  !.nn = @ + r1.n + ra.n]
             ELSE [started EXCEPT !.s = SliceFrom(s1, n2 + Len(endTag)),
                                  !.w = rf.w, !.nn = @ + r1.n + rf.n,
                                  !.err = rf.err, !.calls = @ + 1]
    /\ UNCHANGED scanUnchanged

\* lines 209-212
ExecuteFuncRest ==
    /\ scan.op = "ExecuteFunc"
    /\ scan.pc = "rest"
    /\ LET r == Write(scan.w, scan.s, failAt, "rest")
       IN  scan' = [scan EXCEPT !.pc = "done", !.w = r.w, !.nn = @ + r.n,
                                !.err = r.err]
    /\ UNCHANGED scanUnchanged

\* lines 331-358 of Reset on a zero Template
ResetStart ==
    /\ scan.pc = "idle"
    /\ LET begun == [ScanIdle EXCEPT !.op = "Reset", !.s = template,
                                     !.prev = Len(template)]
       IN  scan' =
             IF Len(startTag) = 0
             THEN [begun EXCEPT !.pc = "done", !.err = ErrEmptyStartTag]
             ELSE IF Len(endTag) = 0
             THEN [begun EXCEPT !.pc = "done", !.err = ErrEmptyEndTag]
             ELSE IF Count(template, startTag) = 0
             THEN [begun EXCEPT !.pc = "done"]
             ELSE [begun EXCEPT !.pc = "outer"]
    /\ UNCHANGED scanUnchanged

\* lines 361-372: the head of an iteration of the outer loop
ResetOuter ==
    /\ scan.op = "Reset"
    /\ scan.pc = "outer"
    /\ scan.iters < MaxIters
    /\ LET s == scan.s
           n == Index(s, startTag)
           started == [scan EXCEPT !.iters = @ + 1, !.prev = Len(s)]
       IN  scan' =
             IF n < 0
             THEN [started EXCEPT !.pc = "done",
                                  !.texts = lastTexts(@, s)]
             ELSE [started EXCEPT !.pc = "inner",
                                  !.texts = Append(@, Slice(s, 0, n)),
                                  !.s = SliceFrom(s, n + Len(startTag)),
                                  !.missingTag = <<>>]
    /\ UNCHANGED scanUnchanged

\* lines 373-378: the test of the inner loop and one iteration of it
ResetInner ==
    /\ scan.op = "Reset"
    /\ scan.pc = "inner"
    /\ scan.iters < MaxIters
    /\ LET s == scan.s
           startTagIdx == Index(s, startTag)
           endTagIdx == Index(s, endTag)
           cut == startTagIdx + Len(startTag)
       IN  scan' =
             IF (startTagIdx < endTagIdx) /\ (startTagIdx > -1)
             THEN [scan EXCEPT !.iters = @ + 1, !.prev = Len(s),
                               !.missingTag = @ \o Slice(s, 0, cut),
                               !.s = SliceFrom(s, cut)]
             ELSE [scan EXCEPT !.pc = "tail"]
    /\ UNCHANGED scanUnchanged

\* lines 380-403: the rest of the iteration of the outer loop
ResetTail ==
    /\ scan.op = "Reset"
    /\ scan.pc = "tail"
    /\ \E capExtra \in 0..MaxCapExtra :
        LET tb == scan.s
            idx == Index(tb, startTag)
            nNext0 == IF idx < 0 THEN Len(tb) ELSE idx
            same == (startTag = endTag)
            oob == same /\ nNext0 + Len(startTag) > Len(tb)
            si == secondIndex(SliceFrom(tb, nNext0 + Len(startTag)),
                              startTag, capExtra)
            nNext == IF ~same THEN nNext0
                     ELSE IF si.n < 0 THEN Len(tb) ELSE si.n
            nEnd == tagEndIndex(tb, nNext, endTag)
        IN  scan' =
              IF oob \/ (same /\ si.panic)
              THEN [scan EXCEPT !.pc = "done", !.panic = TRUE]
              ELSE IF nEnd < 0
              THEN [scan EXCEPT !.pc = "done", !.err = ErrCannotFindEndTag]
              ELSE [scan EXCEPT !.pc = "outer",
                                !.tags = Append(@, tagName(scan.missingTag,
                                                           tb, nEnd)),
                                !.s = SliceFrom(tb, nEnd + Len(endTag))]
    /\ UNCHANGED scanUnchanged

NextScan ==
    \/ ExecuteFuncStart
    \/ ExecuteFuncIter
    \/ ExecuteFuncRest
    \/ ResetStart
    \/ ResetOuter
    \/ ResetInner
    \/ ResetTail

SpecScan == InitScan /\ [][NextScan]_vars

(***************************************************************************)
(* Properties                                                              *)
(***************************************************************************)
\* the calls of the tag callback f, in order
Calls(events) == SelectSeq(events, LAMBDA e : e.op = "call")

\* the render took the branch of lines 198-203 (start tag without end tag)
WroteStartTag(events) ==
    \E i \in 1..Len(events) : events[i].what = "startTag"

\* every value of m is a []byte, a string, a TagFunc or nil
ValidMap(mm) == \A k \in DOMAIN mm : mm[k].kind # "other"

\* value(tag): the bytes of m[tag], empty when tag is absent or nil
valueBytes(mm, tag) ==
    IF Lookup(mm, tag).kind \in {"bytes", "string", "TagFunc"}
    THEN Lookup(mm, tag).data ELSE <<>>

\* fragments[0], value(tags[0]), fragments[1], ..., fragments[k]
RECURSIVE Interleave(_, _, _)
Interleave(texts, tags, mm) ==
    IF Len(tags) = 0 THEN texts[1]
    ELSE texts[1] \o valueBytes(mm, tags[1])
            \o Interleave(Tail(texts), Tail(tags), mm)

\* C1: Template.Execute with a map of []byte, string and TagFunc values on a
\* sink that accepts all writes appends fragments[0], value(tags[0]), ...,
\* fragments[k], returns a nil error and the number of bytes appended; a
\* template without start delimiter is written as it is; the documented
\* example renders as documented, with and without the query tag.
C1_ExecuteInterleaves ==
    (pre.called /\ failAt = 0 /\ ValidMap(m)) =>
        /\ pre.err = ErrNil
        /\ pre.nn = Len(pre.out)
        /\ Index(template, startTag) < 0 => pre.out = template
        /\ Index(template, startTag) >= 0 =>
            /\ Len(t.texts) = Len(t.tags) + 1
            /\ pre.out = Interleave(t.texts, t.tags, m)
        /\ (template = ExHttpTemplate /\ m = MapHttp) =>
            pre.out = ExHttpOutput
        /\ (template = ExHttpTemplate /\ m = MapHttpNoQuery) =>
            pre.out = ExHttpOutputNoQuery

C1_Witness ==
    /\ pre.called
    /\ template = ExHttpTemplate
    /\ m = MapHttp
    /\ t.tags = <<KeyHost, KeyQuery>>
    /\ pre.out = ExHttpOutput
    /\ pre.nn = Len(ExHttpOutput)

\* C2: for a template NewTemplate parses, the one-shot ExecuteFunc calls f
\* with the same tag names and appends the same bytes, with the same count
\* and error, as Template.ExecuteFunc (stated for a sink that accepts all
\* writes and a resolver that returns no error).
C2_OneShotEqualsPrecompiled ==
    (Parsed /\ pre.called /\ one.called /\ failAt = 0 /\ ValidMap(m)) =>
        /\ Calls(one.events) = Calls(pre.events)
        /\ one.out = pre.out
        /\ one.nn = pre.nn
        /\ one.err = pre.err

\* The tokenizer the specification describes: a tag runs from a start marker
\* to the first end marker after it, and the text from there to the next
\* start marker is the next fragment.
RECURSIVE nearestParse(_, _, _, _, _)
nearestParse(s, a, b, texts, tags) ==
    LET n == Index(s, a)
        s1 == SliceFrom(s, n + Len(a))
        e == Index(s1, b)
    IN  IF n < 0 THEN [ok |-> TRUE, texts |-> Append(texts, s), tags |-> tags]
        ELSE IF e < 0 THEN [ok |-> FALSE, texts |-> texts, tags |-> tags]
        ELSE nearestParse(SliceFrom(s1, e + Len(b)), a, b,
                          Append(texts, Slice(s, 0, n)),
                          Append(tags, TrimSpace(Slice(s1, 0, e))))

NearestParse(s, a, b) == nearestParse(s, a, b, <<>>, <<>>)

\* C3: with distinct delimiters every tag ends at the first end marker after
\* its start marker, inner start markers stay in the tag, the name is
\* trimmed, and the text up to the next start marker is the next fragment.
C3_TagEndsAtNearestEndTag ==
    (Parsed /\ startTag # endTag /\ Index(template, startTag) >= 0) =>
        /\ NearestParse(template, startTag, endTag).ok
        /\ t.tags = NearestParse(template, startTag, endTag).tags
        /\ t.texts = NearestParse(template, startTag, endTag).texts

Even(n) == n % 2 = 0

\* C4: with startTag = endTag = D and an even, positive number of
\* occurrences of D, none overlapping another, NewTemplate succeeds and
\* pairs the occurrences in order.
C4_SymmetricDelimitersPair ==
    (newRes.called /\ startTag = endTag /\ startTag # <<>>
        /\ Count(template, startTag) > 0
        /\ Even(Count(template, startTag))
        /\ Cardinality(Occurrences(template, startTag))
                = Count(template, startTag)) =>
        /\ Parsed
        /\ t.tags = NearestParse(template, startTag, startTag).tags
        /\ t.texts = NearestParse(template, startTag, startTag).texts

\* C5: NewTemplate reports malformed input as an error value and never
\* panics: ErrEmptyStartTag, ErrEmptyEndTag, and 'cannot find end tag' when
\* no end tag follows the first start marker; no Template is returned then.
C5_MalformedInputIsAnError ==
    newRes.called =>
        /\ ~newRes.panic
        /\ startTag = <<>> => newRes.err = ErrEmptyStartTag
        /\ (startTag # <<>> /\ endTag = <<>>) => newRes.err = ErrEmptyEndTag
        /\ (startTag # <<>> /\ endTag # <<>>
                /\ Index(template, startTag) >= 0
                /\ Index(SliceFrom(template, Index(template, startTag)
                                                + Len(startTag)),
                         endTag) < 0) =>
            newRes.err = ErrCannotFindEndTag
        /\ newRes.err # ErrNil => t = ZeroTemplate

\* C6: on a sink that accepts all writes the one-shot path returns a nil
\* error; when it meets a start marker with no end tag after it, the output
\* is the rendering of the text before that marker, then the marker and the
\* rest of the template verbatim, and the resolver is called for no further
\* tag.  "a{{b" renders as itself while NewTemplate rejects it.
C6_OneShotUnterminatedIsLiteral ==
    (one.called /\ failAt = 0) =>
        /\ one.err = ErrNil
        /\ one.nn = Len(one.out)
        /\ (Index(template, startTag) >= 0 /\ Index(template, endTag) < 0) =>
            (WroteStartTag(one.events) /\ one.out = template
                /\ Calls(one.events) = <<>>)
        /\ WroteStartTag(one.events) =>
            \E q \in 0..(Len(template) - Len(startTag)) :
                LET rest == SliceFrom(template, q + Len(startTag))
                    p == ExecuteFunc(Slice(template, 0, q), startTag, endTag,
                                     EmptyWriter, m, 0)
                IN  /\ Slice(template, q, q + Len(startTag)) = startTag
                    /\ Index(rest, endTag) < 0
                    /\ ~WroteStartTag(p.w.events)
                    /\ one.out = p.w.buf \o startTag \o rest
                    /\ Calls(one.events) = Calls(p.w.events)
        /\ (template = ExUnterminatedTemplate /\ newRes.called) =>
            newRes.err = ErrCannotFindEndTag

C6_Witness ==
    /\ one.called
    /\ failAt = 0
    /\ template = ExUnterminatedTemplate
    /\ WroteStartTag(one.events)
    /\ one.out = ExUnterminatedTemplate
    /\ newRes.err = ErrCannotFindEndTag

\* f was called for a tag that m maps to a value of another type
CalledInvalidTag(events) ==
    \E i \in 1..Len(events) :
        events[i].op = "call" /\ Lookup(m, events[i].tag).kind = "other"

\* C7: when a tag of the template is mapped to a value that is not a
\* []byte, a string or a TagFunc, Execute returns ErrInvalidTag on the
\* precompiled and on the one-shot path.
C7_InvalidTagIsReturned ==
    /\ (pre.called /\ failAt = 0 /\ CalledInvalidTag(pre.events)) =>
        (pre.err = ErrInvalidTag /\ pre.nn = Len(pre.out))
    /\ (one.called /\ failAt = 0 /\ CalledInvalidTag(one.events)) =>
        (one.err = ErrInvalidTag /\ one.nn = Len(one.out))

\* nothing follows a failed write, and the render returns its error and the
\* number of bytes written
AbortsAtFailedWrite(r) ==
    \A i \in 1..Len(r.events) :
        (r.events[i].op = "write" /\ ~r.events[i].ok) =>
            /\ i = Len(r.events)
            /\ r.err = ErrWrite
            /\ r.nn = Len(r.out)

\* C8: once a write to the sink fails, Template.ExecuteFunc and the one-shot
\* ExecuteFunc make no further write and no further callback call and
\* return that error with the number of bytes written so far.
C8_RenderStopsAtFailedWrite ==
    /\ pre.called => AbortsAtFailedWrite(pre)
    /\ one.called => AbortsAtFailedWrite(one)

\* tags[i] lies between fragments[i] and fragments[i+1] in the text s: s is
\* texts[1], a, a text that trims to tags[1], b, texts[2], ...
RECURSIVE LiesBetween(_, _, _, _, _)
LiesBetween(s, texts, tags, a, b) ==
    IF Len(tags) = 0 THEN texts = <<s>>
    ELSE LET head == texts[1] \o a
             rest == SliceFrom(s, Len(head))
         IN  /\ Len(texts) = Len(tags) + 1
             /\ Len(s) >= Len(head)
             /\ Slice(s, 0, Len(head)) = head
             /\ \E k \in 0..(Len(rest) - Len(b)) :
                    /\ TrimSpace(Slice(rest, 0, k)) = tags[1]
                    /\ Slice(rest, k, k + Len(b)) = b
                    /\ LiesBetween(SliceFrom(rest, k + Len(b)), Tail(texts),
                                   Tail(tags), a, b)

FreshRender(tt, mm) ==
    LET r == TemplateExecuteFunc(tt, EmptyWriter, mm, 0)
    IN  IF r.err # ErrNil THEN [s |-> <<>>, err |-> r.err]
        ELSE [s |-> r.w.buf, err |-> ErrNil]

\* C9: with no Reset running, every ExecuteString of every goroutine returns
\* what a render into a fresh empty sink returns; the renders leave the
\* Template as parsed, a buffer is held by one call between Get and Put and
\* is not in the pool meanwhile, and every buffer in the pool is empty.
C9_ConcurrentRendersAreIndependent ==
    /\ t = Reset(ZeroTemplate, template, startTag, endTag, 0).t
    /\ \A g \in Goroutines :
        gor[g].pc = "returned" =>
            /\ gor[g].s = FreshRender(t, gor[g].m).s
            /\ gor[g].err = FreshRender(t, gor[g].m).err
    /\ \A id \in pool : bufs[id] = <<>>
    /\ \A g \in Goroutines :
        Holding(g) =>
            /\ gor[g].bb \notin pool
            /\ \A h \in Goroutines \ {g} :
                Holding(h) => gor[h].bb # gor[g].bb

C9_Witness ==
    /\ \A g \in Goroutines :
        /\ gor[g].pc = "returned"
        /\ gor[g].s # <<>>
    /\ CallsMade(NumGoroutines) = MaxCalls
    /\ Len(t.tags) = 2
    /\ Len(bufs) = 1

\* C11: after any sequence of Reset calls on one Template (more, fewer or
\* no tags than before, calls that returned an error), a Reset that returns
\* nil leaves the template text, fragments and tags that NewTemplate with the
\* same arguments produces, and Template.Execute then returns what it
\* returns on that fresh Template.
C11_ResetReplacesContent ==
    Parsed =>
        \E c \in 0..MaxCapExtra :
            LET fresh == Reset(ZeroTemplate, template, startTag, endTag, c)
            IN  /\ ~fresh.panic
                /\ fresh.err = ErrNil
                /\ t.template = fresh.t.template
                /\ t.startTag = fresh.t.startTag
                /\ t.endTag = fresh.t.endTag
                /\ t.texts = fresh.t.texts
                /\ t.tags = fresh.t.tags
                /\ pre.called =>
                    pre = Rendered(TemplateExecuteFunc(fresh.t, EmptyWriter,
                                                       m, failAt))

\* a Reset to one tag after a parse with two tags, a call that returned an
\* error and a call that panicked, then rendered
C11_Witness ==
    /\ Parsed
    /\ {"ok", "err", "panic"} \subseteq resets
    /\ Len(t.tags) = 1
    /\ t.tagsCap >= 2
    /\ Len(t.texts) < t.textsCap
    /\ pre.called
    /\ pre.out # <<>>

\* the same after a Reset to a template without tags
C11_WitnessNoTags ==
    /\ Parsed
    /\ t.texts = <<>>
    /\ t.textsCap >= 3
    /\ pre.called
    /\ pre.out = template
    /\ template # <<>>

\* C12: every call of NewTemplate/Reset and of the one-shot ExecuteFunc
\* terminates for every template and every pair of delimiters: every
\* iteration of a scanning loop that goes round again has shortened the
\* remaining template text, so a call begins at most len(template)+1
\* iterations and calls the resolver at most len(template) times.
C12_ScansAreBounded ==
    /\ scan.iters <= Len(template) + 1
    /\ scan.calls <= Len(template)
    /\ (scan.pc \in {"loop", "outer", "inner"} /\ scan.iters > 0) =>
        Len(scan.s) < scan.prev

====
